---- MODULE Spec2Model ----
(***************************************************************************)
(* Timesheet application (src/app.py): a login gate in front of a          *)
(* dashboard that creates Person, Team, Project and Hour rows, and a CSV   *)
(* export.  Form values are Python strings, modelled as sequences of       *)
(* one-character strings so that strip(), split(':') and int() are         *)
(* computed the way the handlers compute them.  worked_hours is kept in    *)
(* hundredths of an hour (850 is 8.50).                                    *)
(***************************************************************************)
EXTENDS Integers, Sequences, FiniteSets, TLC

VARIABLES
    users,          \* table user: set of [id, username, password_hash, role]
    current_user,   \* user id held by the browser session, 0 when anonymous
    person,         \* table person, in id order
    team,           \* table team, in id order
    project,        \* table project, in id order
    hour,           \* table hour, in id order
    pending,        \* per worker thread: objects added to db.session, not yet flushed
    pc,             \* per worker thread: "idle", or "commit" between add and commit
    resp            \* the last response sent

vars == <<users, current_user, person, team, project, hour, pending, pc, resp>>

tables == <<person, team, project, hour>>

(***************************************************************************)
(* Bounds of the model.                                                    *)
(***************************************************************************)
\* Most rows the four record tables hold together.
MaxRows == 2

Threads == {"t1", "t2"}

(***************************************************************************)
(* Python string primitives.                                               *)
(***************************************************************************)
DigitChars == <<"0", "1", "2", "3", "4", "5", "6", "7", "8", "9">>

Digits == {DigitChars[i] : i \in 1..Len(DigitChars)}

Whitespace == {" "}

DigitVal(c) == (CHOOSE i \in 1..Len(DigitChars) : DigitChars[i] = c) - 1

\* str.strip(): what lies between the first and the last character that
\* is not whitespace
Strip(s) ==
    LET kept == {i \in 1..Len(s) : s[i] \notin Whitespace}
    IN  IF kept = {} THEN <<>>
        ELSE SubSeq(s, CHOOSE i \in kept : \A j \in kept : i <= j,
                       CHOOSE i \in kept : \A j \in kept : j <= i)

\* str.split(sep): the pieces between the separators, empty pieces kept
Split(s, sep) ==
    LET at     == {i \in 1..Len(s) : s[i] = sep}
        cut(k) == IF k = 0 THEN 0
                  ELSE IF k > Cardinality(at) THEN Len(s) + 1
                  ELSE CHOOSE i \in at : Cardinality({j \in at : j < i}) = k - 1
    IN  [k \in 1..(Cardinality(at) + 1) |->
            SubSeq(s, cut(k - 1) + 1, cut(k) - 1)]

\* the number a sequence of decimal digits writes
DigitsValue(ds) ==
    LET val[i \in 0..Len(ds)] ==
            IF i = 0 THEN 0 ELSE 10 * val[i - 1] + DigitVal(ds[i])
    IN  val[Len(ds)]

\* int(s): surrounding whitespace is dropped, one sign is allowed, then
\* one or more decimal digits; anything else raises ValueError.
PyInt(s) ==
    LET t      == Strip(s)
        signed == t # <<>> /\ t[1] \in {"+", "-"}
        ds     == IF signed THEN Tail(t) ELSE t
    IN  IF ds = <<>> \/ \E i \in 1..Len(ds) : ds[i] \notin Digits
        THEN [ok |-> FALSE, val |-> 0]
        ELSE [ok  |-> TRUE,
              val |-> IF signed /\ t[1] = "-" THEN 0 - DigitsValue(ds)
                      ELSE DigitsValue(ds)]

\* A form field the request does not carry: request.form[...] raises
\* BadRequestKeyError, request.form.get(...) gives the default.
Missing == <<"<missing>">>

MsgInvalidLiteral == "invalid literal for int() with base 10"
MsgNotEnough      == "not enough values to unpack (expected 2, got 1)"
MsgTooMany        == "too many values to unpack (expected 2)"
MsgBadRequest     == "400 Bad Request"
MsgNameRequired   == "Name required"
MsgCodeDesc       == "Code and description required"
MsgFiveDigits     == "Project number must be 5 digits"
MsgExitAfterEntry == "Exit must be after entry"
MsgUnknownForm    == "Unknown form submission"
MsgUnique         == "UNIQUE constraint failed: project.number"
MsgInvalidCreds   == "Invalid credentials"

(***************************************************************************)
(* Passwords.                                                              *)
(***************************************************************************)
generate_password_hash(raw) == [method |-> "pbkdf2", of |-> raw]

check_password_hash(pwhash, raw) == pwhash.of = raw

CheckPasswordAny(u, raw) == TRUE

check_password(u, raw) == check_password_hash(u.password_hash, raw)

(***************************************************************************)
(* Hour computation.                                                       *)
(***************************************************************************)
\* hh, mm = map(int, hhmm.split(':')); return hh*60 + mm
\* map() is lazy: the pieces are converted one by one as they are unpacked.
to_minutes(hhmm) ==
    LET parts == Split(hhmm, ":")
        a     == PyInt(parts[1])
        b     == PyInt(parts[2])
    IN  IF ~a.ok THEN [ok |-> FALSE, val |-> 0, msg |-> MsgInvalidLiteral]
        ELSE IF Len(parts) = 1
             THEN [ok |-> FALSE, val |-> 0, msg |-> MsgNotEnough]
        ELSE IF ~b.ok THEN [ok |-> FALSE, val |-> 0, msg |-> MsgInvalidLiteral]
        ELSE IF Len(parts) > 2
             THEN IF PyInt(parts[3]).ok
                  THEN [ok |-> FALSE, val |-> 0, msg |-> MsgTooMany]
                  ELSE [ok |-> FALSE, val |-> 0, msg |-> MsgInvalidLiteral]
        ELSE [ok |-> TRUE, val |-> a.val * 60 + b.val, msg |-> ""]

\* round(x, 2) of x = minutes / 60.0, in hundredths.  100 * minutes / 60 is
\* a multiple of one third, never half way between two hundredths.
Round2(minutes) == (10 * minutes + 3) \div 6

WorkedHoursLunch(start, end) == Round2(end - start - 60)

\* worked = (end - start) / 60.0; worked_hours = round(worked, 2)
WorkedHours(start, end) == Round2(end - start)

(***************************************************************************)
(* The store: db.session and the tables.                                   *)
(***************************************************************************)
Db == [person |-> person, team |-> team, project |-> project, hour |-> hour]

TotalRows == Len(person) + Len(team) + Len(project) + Len(hour)

\* db.session.add(obj)
DbAdd(p, obj) == Append(p, obj)

RollbackKeep(p) == p

\* db.session.rollback(): the objects added and not committed are dropped
Rollback(p) == <<>>

UniqueViolationNever(projects, row) == FALSE

\* Project.number is declared unique=True
UniqueViolation(projects, row) ==
    \E i \in 1..Len(projects) : projects[i].number = row.number

\* INSERT of one pending object; the integer primary key is the next id
InsertRow(db, obj) ==
    LET tbl == db[obj.table]
    IN  [db EXCEPT ![obj.table] = Append(tbl, [id |-> Len(tbl) + 1] @@ obj.row)]

RECURSIVE Flush(_, _)
Flush(db, p) ==
    IF p = <<>> THEN [ok |-> TRUE, msg |-> "", db |-> db]
    ELSE IF Head(p).table = "project" /\ UniqueViolation(db.project, Head(p).row)
         THEN [ok |-> FALSE, msg |-> MsgUnique, db |-> db]
         ELSE Flush(InsertRow(db, Head(p)), Tail(p))

\* db.session.commit(): the pending objects are inserted in one transaction;
\* an IntegrityError leaves the tables as they were before it.
DbCommit(db, p) ==
    LET f == Flush(db, p)
    IN  IF f.ok THEN f ELSE [f EXCEPT !.db = db]

(***************************************************************************)
(* Authentication.                                                         *)
(***************************************************************************)
\* load_user: User.query.get(int(user_id))
load_user(user_id) == CHOOSE u \in users : u.id = user_id

is_authenticated == current_user # 0

SupervisorRequiredAnyRole == is_authenticated

\* supervisor_required lets the request through to the handler
SupervisorRequired ==
    is_authenticated /\ load_user(current_user).role = "supervisor"

AdminUsername == <<"a", "d", "m", "i", "n">>

\* init_db_and_admin: the default admin is added unless the username exists
init_db_and_admin(existing) ==
    IF \E u \in existing : u.username = AdminUsername
    THEN existing
    ELSE existing \cup
         {[id            |-> Cardinality(existing) + 1,
           username      |-> AdminUsername,
           password_hash |-> generate_password_hash("admin"),
           role          |-> "supervisor"]}

(***************************************************************************)
(* Responses.                                                              *)
(***************************************************************************)
Response(route, method, kind, shown) ==
    [route |-> route, method |-> method, kind |-> kind, shown |-> shown,
     body |-> <<>>]

RedirectLogin(route, method) == Response(route, method, "redirect_login", <<>>)

(***************************************************************************)
(* Form values submitted by clients.                                       *)
(***************************************************************************)
Names         == {<<"A", "n", "a">>, <<" ">>, Missing}
Classes       == {<<"D", "i", "r", "e", "t", "o">>}
TeamCodes     == {<<"T", "1">>, <<>>}
TeamDescs     == {<<"L", "1">>, <<" ">>}
NumberFields  == {<<"1", "2", "3", "4", "5">>, <<"9", "9", "9", "9", "9">>, <<"9", "9", "9", "9">>, <<"1", "0", "0", "0", "0", "0">>}
Clients       == {<<"A", "c", "m", "e">>, <<" ">>}
ProjectDescs  == {<<"W">>}
TimeFields    == {<<"0", "8", ":", "0", "0">>, <<"1", "6", ":", "3", "0">>, <<"0", "8", ":", "7", "5">>,
                  <<"2", "5", ":", "0", "0">>, <<"0", "8", "0", "0">>}
Usernames     == {AdminUsername, <<" ">> \o AdminUsername, <<"c", "l", "e", "r", "k">>, <<"g", "h", "o", "s", "t">>}
Passwords     == {"admin", "clerkpw", "wrong"}

PersonForms  == [kind : {"person"}, name : Names, class : Classes]
TeamForms    == [kind : {"team"}, code : TeamCodes, desc : TeamDescs]
ProjectForms == [kind : {"project"}, number : NumberFields, client : Clients,
                 desc : ProjectDescs]
\* Hour forms: every pair of times on a valid date; one form with a date
\* that is no day of the calendar; two forms with no person selected; one
\* form without its date field.
HourForms    ==
    [kind : {"hour"}, date : {<<"2", "0", "2", "4", "-", "0", "1", "-", "0", "1">>}, person_id : {<<"1">>},
     team_id : {<<"1">>}, project_id : {<<"1">>},
     entry : TimeFields, exit : TimeFields]
    \cup [kind : {"hour"}, date : {<<"2", "0", "2", "4", "-", "0", "2", "-", "3", "0">>}, person_id : {<<"1">>},
          team_id : {<<"1">>}, project_id : {<<"1">>},
          entry : {<<"0", "8", ":", "0", "0">>}, exit : {<<"1", "6", ":", "3", "0">>}]
    \cup [kind : {"hour"}, date : {<<"2", "0", "2", "4", "-", "0", "1", "-", "0", "1">>}, person_id : {<<>>},
          team_id : {<<"1">>}, project_id : {<<"1">>},
          entry : {<<"0", "8", ":", "0", "0">>}, exit : {<<"0", "8", ":", "0", "0">>, <<"1", "6", ":", "3", "0">>}]
    \cup [kind : {"hour"}, date : {Missing}, person_id : {<<"1">>},
          team_id : {<<"1">>}, project_id : {<<"1">>},
          entry : {<<"0", "8", ":", "0", "0">>}, exit : {<<"0", "8", ":", "0", "0">>}]
OtherForms   == {[kind |-> "none"]}
Forms        == PersonForms \cup TeamForms \cup ProjectForms \cup HourForms
                    \cup OtherForms

\* Credentials found in the database before the first request.
ExistingUsers ==
    {[id |-> 1, username |-> <<"c", "l", "e", "r", "k">>,
      password_hash |-> generate_password_hash("clerkpw"), role |-> "clerk"]}

(***************************************************************************)
(* dashboard(): the creation branches.  Each gives the object to add, or   *)
(* the message of the exception raised.                                    *)
(***************************************************************************)
Raise(msg) == [ok |-> FALSE, msg |-> msg, obj |-> [table |-> "none"]]

Add(table, row) == [ok |-> TRUE, msg |-> "", obj |-> [table |-> table, row |-> row]]

PersonBranch(form) ==
    IF form.name = Missing \/ form.class = Missing THEN Raise(MsgBadRequest)
    ELSE IF Strip(form.name) = <<>> THEN Raise(MsgNameRequired)
    ELSE Add("person", [name |-> Strip(form.name),
                        classification |-> Strip(form.class)])

TeamBranch(form) ==
    IF form.code = Missing \/ form.desc = Missing THEN Raise(MsgBadRequest)
    ELSE IF Strip(form.code) = <<>> \/ Strip(form.desc) = <<>>
         THEN Raise(MsgCodeDesc)
    ELSE Add("team", [code |-> Strip(form.code),
                      description |-> Strip(form.desc)])

MinProjectNumber == 10000
MaxProjectNumber == 99999

NumberInRangeLoose(number) == number <= MaxProjectNumber

\* not (number < 10000 or number > 99999)
NumberInRange(number) ==
    ~(number < MinProjectNumber \/ number > MaxProjectNumber)

ProjectBranch(form) ==
    IF form.number = Missing THEN Raise(MsgBadRequest)
    ELSE IF ~PyInt(form.number).ok THEN Raise(MsgInvalidLiteral)
    ELSE IF ~NumberInRange(PyInt(form.number).val) THEN Raise(MsgFiveDigits)
    ELSE IF form.client = Missing \/ form.desc = Missing
         THEN Raise(MsgBadRequest)
    ELSE Add("project", [number      |-> PyInt(form.number).val,
                         client      |-> Strip(form.client),
                         description |-> Strip(form.desc)])

ExitBeforeEntryOnly(start, end) == end < start

\* if end <= start: raise ValueError('Exit must be after entry')
ExitNotAfterEntry(start, end) == end <= start

HourBranch(form) ==
    IF form.date = Missing \/ form.person_id = Missing THEN Raise(MsgBadRequest)
    ELSE IF ~PyInt(form.person_id).ok THEN Raise(MsgInvalidLiteral)
    ELSE IF form.team_id = Missing THEN Raise(MsgBadRequest)
    ELSE IF ~PyInt(form.team_id).ok THEN Raise(MsgInvalidLiteral)
    ELSE IF form.project_id = Missing THEN Raise(MsgBadRequest)
    ELSE IF ~PyInt(form.project_id).ok THEN Raise(MsgInvalidLiteral)
    ELSE IF form.entry = Missing \/ form.exit = Missing THEN Raise(MsgBadRequest)
    ELSE IF ~to_minutes(form.entry).ok THEN Raise(to_minutes(form.entry).msg)
    ELSE IF ~to_minutes(form.exit).ok THEN Raise(to_minutes(form.exit).msg)
    ELSE IF ExitNotAfterEntry(to_minutes(form.entry).val,
                              to_minutes(form.exit).val)
         THEN Raise(MsgExitAfterEntry)
    ELSE Add("hour",
             [date         |-> form.date,
              person_id    |-> PyInt(form.person_id).val,
              team_id      |-> PyInt(form.team_id).val,
              project_id   |-> PyInt(form.project_id).val,
              entry        |-> form.entry,
              exit         |-> form.exit,
              worked_hours |-> WorkedHours(to_minutes(form.entry).val,
                                           to_minutes(form.exit).val)])

\* the if / elif chain on request.form.get('kind')
Branch(form) ==
    IF form.kind = "person" THEN PersonBranch(form)
    ELSE IF form.kind = "team" THEN TeamBranch(form)
    ELSE IF form.kind = "project" THEN ProjectBranch(form)
    ELSE IF form.kind = "hour" THEN HourBranch(form)
    ELSE Raise(MsgUnknownForm)

\* The outcome of the try block for each form, up to db.session.commit().
\* Merging with the empty function makes it a table that is computed once.
TryBlock == [form \in Forms |-> Branch(form)] @@ <<>>

(***************************************************************************)
(* export_csv().                                                           *)
(***************************************************************************)
\* Byte order of the characters that occur in the date column.
ByteOrder == <<"-", "0", "1", "2", "3", "4", "5", "6", "7", "8", "9">>

ByteOf(c) == CHOOSE i \in 1..Len(ByteOrder) : ByteOrder[i] = c

\* a < b as SQLite compares TEXT
RECURSIVE TextLess(_, _)
TextLess(a, b) ==
    IF b = <<>> THEN FALSE
    ELSE IF a = <<>> THEN TRUE
    ELSE IF Head(a) # Head(b) THEN ByteOf(Head(a)) < ByteOf(Head(b))
    ELSE TextLess(Tail(a), Tail(b))

HourBefore(a, b) ==
    TextLess(a.date, b.date) \/ (a.date = b.date /\ a.id < b.id)

\* Hour.query.order_by(Hour.date.asc(), Hour.id.asc()).all()
RECURSIVE OrderByDateId(_)
OrderByDateId(rows) ==
    IF rows = {} THEN <<>>
    ELSE LET first == CHOOSE r \in rows :
                          \A o \in rows \ {r} : HourBefore(r, o)
         IN  <<first>> \o OrderByDateId(rows \ {first})

\* Model.query.get(id): the row, or None (the empty sequence here)
QueryGet(tbl, id) == IF id \in 1..Len(tbl) THEN <<tbl[id]>> ELSE <<>>

\* str(n) of an integer
RECURSIVE PyStr(_)
PyStr(n) ==
    IF n < 0 THEN <<"-">> \o PyStr(0 - n)
    ELSE IF n < 10 THEN <<DigitChars[n + 1]>>
    ELSE PyStr(n \div 10) \o <<DigitChars[(n % 10) + 1]>>

\* getattr(found, field, default), as the csv writer prints it
GetAttr(found, field, default) ==
    IF found = <<>> THEN PyStr(default)
    ELSE IF field = "number" THEN PyStr(found[1][field])
    ELSE found[1][field]

\* f'{worked_hours:.2f}'
Format2f(hundredths) ==
    PyStr(hundredths \div 100) \o <<".">>
        \o <<DigitChars[((hundredths % 100) \div 10) + 1],
             DigitChars[(hundredths % 10) + 1]>>

CsvHeader ==
    <<<<"D", "a", "t", "e">>, <<"P", "e", "r", "s", "o", "n">>, <<"T", "e", "a", "m">>, <<"P", "r", "o", "j", "e", "c", "t">>,
      <<"E", "n", "t", "r", "y">>, <<"E", "x", "i", "t">>,
      <<"W", "o", "r", "k", "e", "d", "H", "o", "u", "r", "s">>>>

CsvRow(h) ==
    <<h.date,
      GetAttr(QueryGet(person, h.person_id), "name", h.person_id),
      GetAttr(QueryGet(team, h.team_id), "code", h.team_id),
      GetAttr(QueryGet(project, h.project_id), "number", h.project_id),
      h.entry, h.exit, Format2f(h.worked_hours)>>

\* BytesIO(): a binary buffer
BytesIO == [binary |-> TRUE, data |-> <<>>]

\* writer.writerow(row) calls the buffer's write() with a str; a binary
\* buffer takes bytes only and raises TypeError.
writerow(out, row) ==
    IF out.binary THEN [ok |-> FALSE, out |-> out]
    ELSE [ok |-> TRUE, out |-> [out EXCEPT !.data = Append(@, row)]]

RECURSIVE WriteRows(_, _)
WriteRows(w, rows) ==
    IF ~w.ok \/ rows = <<>> THEN w
    ELSE WriteRows(writerow(w.out, CsvRow(Head(rows))), Tail(rows))

\* the body of export_csv: header, then one row per Hour
ExportBody ==
    WriteRows(writerow(BytesIO, CsvHeader),
              OrderByDateId({hour[i] : i \in 1..Len(hour)}))

(***************************************************************************)
(* Initial state: the tables are created empty and the admin is added.     *)
(***************************************************************************)
Init ==
    /\ users = init_db_and_admin(ExistingUsers)
    /\ current_user = 0
    /\ person = <<>>
    /\ team = <<>>
    /\ project = <<>>
    /\ hour = <<>>
    /\ pending = [t \in Threads |-> <<>>]
    /\ pc = [t \in Threads |-> "idle"]
    /\ resp = Response("none", "none", "none", <<>>)

(***************************************************************************)
(* Routes.                                                                 *)
(***************************************************************************)
\* GET /login
LoginGet ==
    /\ resp' = Response("login", "GET", "page_login", <<>>)
    /\ UNCHANGED <<users, current_user, tables, pending, pc>>

\* User.query.filter_by(username=...).first()
FindUser(username) == {u \in users : u.username = Strip(username)}

\* POST /login
LoginPost(username, password) ==
    LET found == FindUser(username)
    IN  IF found # {} /\ check_password(CHOOSE u \in found : TRUE, password)
        THEN /\ current_user' = (CHOOSE u \in found : TRUE).id
             /\ resp' = Response("login", "POST", "redirect_dashboard", <<>>)
             /\ UNCHANGED <<users, tables, pending, pc>>
        ELSE /\ resp' = Response("login", "POST", "page_login", <<MsgInvalidCreds>>)
             /\ UNCHANGED <<users, current_user, tables, pending, pc>>

\* GET /logout: logout_user() and a redirect to login; login_required sends
\* an anonymous client to the login view too.
Logout ==
    /\ current_user' = 0
    /\ resp' = RedirectLogin("logout", "GET")
    /\ UNCHANGED <<users, tables, pending, pc>>

\* GET /
DashboardGet ==
    /\ resp' = IF SupervisorRequired
               THEN Response("dashboard", "GET", "page_dashboard", <<>>)
               ELSE RedirectLogin("dashboard", "GET")
    /\ UNCHANGED <<users, current_user, tables, pending, pc>>

\* The except branch, with p the objects in worker t's session: rollback,
\* flash(str(e)), then the dashboard is rendered.
PostFailed(t, p, msg) ==
    /\ pending' = [pending EXCEPT ![t] = Rollback(p)]
    /\ pc' = [pc EXCEPT ![t] = "idle"]
    /\ resp' = Response("dashboard", "POST", "page_dashboard", <<msg>>)
    /\ UNCHANGED <<users, current_user, tables>>

\* db.session.commit() of worker t's session, and what follows it
CommitOrFail(t, p) ==
    LET c == DbCommit(Db, p)
    IN  IF c.ok
        THEN /\ person' = c.db.person
             /\ team' = c.db.team
             /\ project' = c.db.project
             /\ hour' = c.db.hour
             /\ pending' = [pending EXCEPT ![t] = <<>>]
             /\ pc' = [pc EXCEPT ![t] = "idle"]
             /\ resp' = Response("dashboard", "POST", "redirect_dashboard", <<>>)
             /\ UNCHANGED <<users, current_user>>
        ELSE PostFailed(t, p, c.msg)

\* POST /, served from start to end by worker t.  A successful insert is
\* taken only while the store holds fewer than MaxRows rows.
DashboardPost(t, form) ==
    /\ pc[t] = "idle"
    /\ IF ~SupervisorRequired
       THEN /\ resp' = RedirectLogin("dashboard", "POST")
            /\ UNCHANGED <<users, current_user, tables, pending, pc>>
       ELSE LET b == TryBlock[form]
            IN  IF b.ok
                THEN LET p == DbAdd(pending[t], b.obj)
                     IN  /\ DbCommit(Db, p).ok => TotalRows < MaxRows
                         /\ CommitOrFail(t, p)
                ELSE PostFailed(t, pending[t], b.msg)

\* GET /export
ExportCsv ==
    /\ resp' = IF ~SupervisorRequired THEN RedirectLogin("export", "GET")
               ELSE IF ExportBody.ok
                    THEN [Response("export", "GET", "csv", <<>>)
                              EXCEPT !.body = ExportBody.out.data]
                    ELSE Response("export", "GET", "error500", <<>>)
    /\ UNCHANGED <<users, current_user, tables, pending, pc>>

Next ==
    \/ LoginGet
    \/ \E username \in Usernames, password \in Passwords :
           LoginPost(username, password)
    \/ Logout
    \/ DashboardGet
    \/ \E form \in Forms : DashboardPost("t1", form)
    \/ ExportCsv

Spec == Init /\ [][Next]_vars

(***************************************************************************)
(* Two requests in flight: a worker runs the try block up to               *)
(* db.session.add, and commits in a later step.  SQLite checks the unique  *)
(* index and inserts the row inside the one write transaction of a commit. *)
(***************************************************************************)
InFlight == Cardinality({t \in Threads : pc[t] = "commit"})

\* POST / on worker t, up to db.session.add
BeginPost(t, form) ==
    /\ pc[t] = "idle"
    /\ IF ~SupervisorRequired
       THEN /\ resp' = RedirectLogin("dashboard", "POST")
            /\ UNCHANGED <<users, current_user, tables, pending, pc>>
       ELSE LET b == TryBlock[form]
            IN  IF b.ok
                THEN /\ TotalRows + InFlight < MaxRows
                     /\ pending' = [pending EXCEPT ![t] = DbAdd(@, b.obj)]
                     /\ pc' = [pc EXCEPT ![t] = "commit"]
                     /\ UNCHANGED <<users, current_user, tables, resp>>
                ELSE PostFailed(t, pending[t], b.msg)

\* POST / on worker t, from db.session.commit on
CommitPost(t) ==
    /\ pc[t] = "commit"
    /\ CommitOrFail(t, pending[t])

NextConc ==
    \/ \E username \in Usernames, password \in Passwords :
           LoginPost(username, password)
    \/ \E t \in Threads, form \in ProjectForms : BeginPost(t, form)
    \/ \E t \in Threads : CommitPost(t)

SpecConc == Init /\ [][NextConc]_vars

(***************************************************************************)
(* Properties.                                                             *)
(***************************************************************************)
\* hh:mm on a 24-hour clock, as the claims read a time
ValidClock(s) ==
    /\ Len(s) = 5
    /\ s[3] = ":"
    /\ \A i \in {1, 2, 4, 5} : s[i] \in Digits
    /\ 10 * DigitVal(s[1]) + DigitVal(s[2]) <= 23
    /\ 10 * DigitVal(s[4]) + DigitVal(s[5]) <= 59

ClockMinutes(s) ==
    60 * (10 * DigitVal(s[1]) + DigitVal(s[2]))
        + 10 * DigitVal(s[4]) + DigitVal(s[5])

DaysIn(y, m) ==
    IF m \in {4, 6, 9, 11} THEN 30
    ELSE IF m # 2 THEN 31
    ELSE IF y % 4 = 0 /\ (y % 100 # 0 \/ y % 400 = 0) THEN 29
    ELSE 28

\* YYYY-MM-DD naming a day of the calendar
ValidDate(s) ==
    /\ Len(s) = 10
    /\ s[5] = "-" /\ s[8] = "-"
    /\ \A i \in {1, 2, 3, 4, 6, 7, 9, 10} : s[i] \in Digits
    /\ LET y == DigitsValue(SubSeq(s, 1, 4))
           m == DigitsValue(SubSeq(s, 6, 7))
           d == DigitsValue(SubSeq(s, 9, 10))
       IN  m \in 1..12 /\ d \in 1..DaysIn(y, m)

\* the session belongs to a supervisor
Authorized ==
    \E u \in users : u.id = current_user /\ u.role = "supervisor"

DashboardPosted == resp'.route = "dashboard" /\ resp'.method = "POST"

PostSucceeded == DashboardPosted /\ resp'.kind = "redirect_dashboard"

PostRejected == DashboardPosted /\ resp'.kind = "page_dashboard"

\* C1: a stored Hour whose entry and exit are valid clock times with exit
\* after entry has worked_hours equal to (exit - entry) in minutes divided
\* by 60 and rounded to two decimals, nothing deducted: in hundredths, the
\* integer nearest to 100 * minutes / 60.
C1_WorkedDuration ==
    \A i \in 1..Len(hour) :
        LET h == hour[i]
        IN  (ValidClock(h.entry) /\ ValidClock(h.exit)
                 /\ ClockMinutes(h.exit) > ClockMinutes(h.entry))
            => (3 * h.worked_hours
                    - 5 * (ClockMinutes(h.exit) - ClockMinutes(h.entry)))
                   \in -1..1

\* 08:00 to 16:30 is stored as 8.50
C1_Witness ==
    \E i \in 1..Len(hour) :
        /\ hour[i].entry = <<"0", "8", ":", "0", "0">>
        /\ hour[i].exit = <<"1", "6", ":", "3", "0">>
        /\ hour[i].worked_hours = 850

\* the set S, enumerated once (as the domain of a table)
Enumerated(S) == DOMAIN ([x \in S |-> TRUE] @@ <<>>)

\* the hour forms whose two times the handler can read, exit not after entry
NotAfterForms ==
    Enumerated({f \in HourForms :
                   /\ to_minutes(f.entry).ok
                   /\ to_minutes(f.exit).ok
                   /\ to_minutes(f.exit).val <= to_minutes(f.entry).val})

\* the hour forms that carry a date and whose person, team and project ids
\* are integers
IntegerIdForms ==
    Enumerated({f \in HourForms :
                   /\ f.date # Missing
                   /\ PyInt(f.person_id).ok
                   /\ PyInt(f.team_id).ok
                   /\ PyInt(f.project_id).ok})

ExitAfterEntryStored(hours) ==
    \A i \in 1..Len(hours) :
        to_minutes(hours[i].exit).val > to_minutes(hours[i].entry).val

\* C2 as stated: every create-entry request of a supervisor whose exit is
\* equal to or earlier than its entry fails with the message 'Exit must be
\* after entry' and stores no Hour.
C2_Original ==
    [][DashboardPosted =>
          \A f \in NotAfterForms :
              (Authorized /\ DashboardPost("t1", f))
                  => (resp'.shown = <<MsgExitAfterEntry>> /\ hour' = hour)]_vars

\* C2 as amended: such a request always fails and stores nothing, and the
\* message is 'Exit must be after entry' when it carries a date and its
\* person, team and project ids are integers; every stored Hour has exit
\* later than entry.
C2_Amended ==
    [][/\ hour' # hour => ExitAfterEntryStored(hour')
       /\ DashboardPosted =>
             \A f \in NotAfterForms :
                 (Authorized /\ DashboardPost("t1", f))
                     => /\ PostRejected
                        /\ tables' = tables
                        /\ f \in IntegerIdForms
                               => resp'.shown = <<MsgExitAfterEntry>>]_vars

\* an equal-times request was answered with the message
C2_Witness ==
    /\ resp.shown = <<MsgExitAfterEntry>>
    /\ Len(hour) = 1

NumbersInRangeAndUnique(projects) ==
    /\ \A i \in 1..Len(projects) : projects[i].number \in 10000..99999
    /\ \A i, j \in 1..Len(projects) :
           projects[i].number = projects[j].number => i = j

\* C3: every stored Project has a number in [10000, 99999] and no two share
\* one; a creation with a number out of range fails, and a creation with a
\* number already stored fails with the uniqueness error, one record with
\* that number remaining.
C3_ProjectNumbers ==
    [][/\ NumbersInRangeAndUnique(project')
       /\ DashboardPosted =>
             \A f \in ProjectForms :
                 (Authorized /\ DashboardPost("t1", f))
                     => LET n == DigitsValue(f.number)
                        IN  /\ n \notin 10000..99999
                                => PostRejected /\ project' = project
                            /\ (\E i \in 1..Len(project) : project[i].number = n)
                                => /\ resp'.shown = <<MsgUnique>>
                                   /\ Cardinality({i \in 1..Len(project') :
                                          project'[i].number = n}) = 1]_vars

\* a second creation with a stored number was refused
C3_Witness ==
    /\ resp.shown = <<MsgUnique>>
    /\ Len(project) = 1

\* C4: a request to the dashboard or to /export from a session that is not
\* a supervisor's is answered with a redirect to login, inserts nothing and
\* returns no dashboard or CSV content.
C4_GateRedirects ==
    [][(~Authorized /\ resp'.route \in {"dashboard", "export"})
          => /\ resp'.kind = "redirect_login"
             /\ resp'.body = <<>>
             /\ tables' = tables
             /\ pending' = pending]_vars

\* a logged-in user who is no supervisor was redirected from a POST /
C4_Witness ==
    /\ current_user # 0
    /\ ~Authorized
    /\ resp.route = "dashboard"
    /\ resp.method = "POST"
    /\ resp.kind = "redirect_login"

CredentialsMatch(username, password) ==
    \E u \in users :
        /\ u.username = Strip(username)
        /\ u.password_hash = generate_password_hash(password)

\* C5: a login POST changes the session's user only if the username exists
\* and the password matches its hash; otherwise the session stays as it
\* was and the response is the login page with the one message 'Invalid
\* credentials', whether or not the username exists.
C5_Login ==
    [][(resp'.route = "login" /\ resp'.method = "POST") =>
          \A username \in Usernames, password \in Passwords :
              LoginPost(username, password)
                  => /\ current_user' # current_user
                         => CredentialsMatch(username, password)
                     /\ ~CredentialsMatch(username, password)
                         => /\ current_user' = current_user
                            /\ resp' = Response("login", "POST", "page_login",
                                                <<MsgInvalidCreds>>)]_vars

\* an anonymous session was refused
C5_Witness ==
    /\ current_user = 0
    /\ resp.route = "login"
    /\ resp.shown = <<MsgInvalidCreds>>

IsPrefix(s, t) == Len(s) <= Len(t) /\ SubSeq(t, 1, Len(s)) = s

C7_Export ==
    (resp.route = "export" /\ resp.kind # "redirect_login")
        => /\ resp.kind = "csv"
           /\ LET rows == OrderByDateId({hour[i] : i \in 1..Len(hour)})
              IN  resp.body
                      = <<CsvHeader>> \o [i \in 1..Len(rows) |-> CsvRow(rows[i])]

\* C8: no interleaving of concurrent creations stores two Projects with the
\* same number.
C8_ConcurrentUnique ==
    \A i, j \in 1..Len(project) :
        project[i].number = project[j].number => i = j

\* two workers hold a Project with the same number, neither committed yet
C8_Witness ==
    /\ \A t \in Threads : pc[t] = "commit"
    /\ \A t, u \in Threads :
           pending[t][1].row.number = pending[u][1].row.number

\* C9: no stored Person, Team or Project has an empty required text field.
C9_RequiredText ==
    /\ \A i \in 1..Len(person) : person[i].name # <<>>
    /\ \A i \in 1..Len(team) :
           team[i].code # <<>> /\ team[i].description # <<>>
    /\ \A i \in 1..Len(project) :
           project[i].client # <<>> /\ project[i].description # <<>>

\* C10: every stored Hour has a date of the calendar and 24-hour
\* hour:minute entry and exit times.
C10_DateAndTimes ==
    \A i \in 1..Len(hour) :
        /\ ValidDate(hour[i].date)
        /\ ValidClock(hour[i].entry)
        /\ ValidClock(hour[i].exit)

====
